---- MODULE Spec2Model ----
(***************************************************************************)
(* remove-instance-protection: a model of doUpdate (src/main.go).  One run *)
(* describes an auto scaling group and its launch template, classifies the *)
(* group's instances against the template's latest version, optionally     *)
(* deregisters the stale unprotected instances from the group's target     *)
(* groups, and removes scale-in protection from the stale protected ones   *)
(* in partitions of BatchSize.                                             *)
(*                                                                         *)
(* Every remote call is one step of the run; its outcome (failure, or the  *)
(* response it returns) is chosen by the environment.  The variable calls  *)
(* records the remote calls in the order they were issued, stdout what     *)
(* fmt.Println wrote, and dryrun the [DRYRUN] groups of log records.       *)
(***************************************************************************)
EXTENDS Integers, Sequences, FiniteSets, TLC

\* ------------------------------------------------------------ bounds
\* longest instance list of a freely enumerated describe response
MaxInstances == 2
\* most target groups attached to the auto scaling group
MaxTargetGroups == 2

\* ------------------------------------------------- program constants
\* gopart.Partition(len(instanceIdsToRemove), 50)
BatchSize == 50

\* ------------------------------------------------------------- state
VARIABLES
    options,              \* the parsed Options (fixed for the run)
    pc,                   \* the position of doUpdate
    instances,            \* asg.Instances
    targetGroupARNs,      \* asg.TargetGroupARNs
    ltName,               \* *ltName
    latestVersion,        \* *lt.LatestVersionNumber
    instanceIdsToRemove,  \* stale and protected: protection to be removed
    latestInstances,      \* at the latest version
    invalidInstances,     \* same template, other version (for printing)
    oldInstances,         \* stale and already unprotected
    tgIdx,                \* index of the target group being processed
    targets,              \* the matched targets of that target group
    partIdx,              \* index of the partition being processed
    calls,                \* remote calls issued so far, in order
    stdout,               \* instance ids printed by fmt.Println
    dryrun                \* groups of [DRYRUN] records logged

vars == <<options, pc, instances, targetGroupARNs, ltName, latestVersion,
          instanceIdsToRemove, latestInstances, invalidInstances,
          oldInstances, tgIdx, targets, partIdx, calls, stdout, dryrun>>

\* ------------------------------------------------------------ inputs
\* type Options: the flags doUpdate reads
Options == [DryRun : BOOLEAN, Force : BOOLEAN, PrintLatestInstances : BOOLEAN,
            PrintInvalidInstances : BOOLEAN, Deregister : BOOLEAN]

\* launch template names: the group's own and a foreign one
AsgTemplate == "web-lt"
OtherTemplate == "other-lt"

\* the launch template's LatestVersionNumber (an int64)
LatestVersionNumber == 5

\* version strings, as sequences of characters
Digits == <<"0", "1", "2", "3", "4", "5", "6", "7", "8", "9">>
V5 == <<"5">>
VPlus5 == <<"+", "5">>
V4 == <<"4">>
VMinus4 == <<"-", "4">>
VBad == <<"x">>

\* autoscaling.Instance: LaunchTemplate may be nil, and so may its Version
Instance(id, hasLT, hasVersion, name, version, protected) ==
    [InstanceId |-> id, hasLaunchTemplate |-> hasLT, hasVersion |-> hasVersion,
     LaunchTemplateName |-> name, Version |-> version,
     ProtectedFromScaleIn |-> protected]

\* the kinds of instance a describe response is enumerated over
InstanceKinds(id) ==
    { Instance(id, TRUE, TRUE, AsgTemplate, V5, TRUE),
      Instance(id, TRUE, TRUE, AsgTemplate, VPlus5, FALSE),
      Instance(id, TRUE, TRUE, AsgTemplate, V4, TRUE),
      Instance(id, TRUE, TRUE, AsgTemplate, V4, FALSE),
      Instance(id, TRUE, TRUE, AsgTemplate, VMinus4, TRUE),
      Instance(id, TRUE, TRUE, AsgTemplate, VBad, TRUE),
      Instance(id, FALSE, FALSE, AsgTemplate, <<>>, TRUE),
      Instance(id, TRUE, FALSE, AsgTemplate, <<>>, FALSE),
      Instance(id, TRUE, TRUE, OtherTemplate, V5, FALSE),
      Instance(id, TRUE, TRUE, OtherTemplate, VBad, TRUE) }

\* instance ids: InstanceId(i) for the i-th instance of the group
InstanceId(i) == <<"i", i>>

\* instance lists of length n with distinct ids
InstanceLists(n) ==
    { s \in [1..n -> UNION { InstanceKinds(InstanceId(i)) : i \in 1..n }] :
        \A i \in 1..n : s[i].InstanceId = InstanceId(i) }

SmallInstanceLists == UNION { InstanceLists(n) : n \in 0..MaxInstances }

\* long lists around the partition size: stale protected instances, led by
\* one instance at the latest version or not
LongList(n, withLatest) ==
    [i \in 1..n |->
        IF i = 1 /\ withLatest
        THEN Instance(InstanceId(i), TRUE, TRUE, AsgTemplate, V5, TRUE)
        ELSE Instance(InstanceId(i), TRUE, TRUE, AsgTemplate, V4, TRUE)]

LongInstanceLists ==
    { LongList(n, b) :
        n \in {BatchSize, BatchSize + 1, 2 * BatchSize + 1}, b \in BOOLEAN }

\* a mixed group: one instance at the latest version, a stale protected
\* one, a stale unprotected one and an unprotected one of another template
MixedList ==
    <<Instance(InstanceId(1), TRUE, TRUE, AsgTemplate, V5, TRUE),
      Instance(InstanceId(2), TRUE, TRUE, AsgTemplate, V4, TRUE),
      Instance(InstanceId(3), TRUE, TRUE, AsgTemplate, V4, FALSE),
      Instance(InstanceId(4), TRUE, TRUE, OtherTemplate, V5, FALSE)>>

\* target group ARNs, in the order the group lists them
TargetGroupName(i) == <<"tg", i>>
TargetGroupLists ==
    { [i \in 1..n |-> TargetGroupName(i)] : n \in 0..MaxTargetGroups }

\* ------------------------------------------------------------ helpers
\* strconv.ParseInt(s, 10, 64): an optional sign, then decimal digits only.
\* The strings of the model are too short to leave the int64 range.
IsDigit(c) == \E d \in 1..Len(Digits) : Digits[d] = c
DigitValue(c) == (CHOOSE d \in 1..Len(Digits) : Digits[d] = c) - 1

RECURSIVE ParseUint(_)
ParseUint(s) ==
    IF s = <<>> THEN 0
    ELSE 10 * ParseUint(SubSeq(s, 1, Len(s) - 1)) + DigitValue(s[Len(s)])

ParseInt(s) ==
    LET signed == s # <<>> /\ s[1] \in {"+", "-"}
        body == IF signed THEN Tail(s) ELSE s
    IN  IF body = <<>> \/ \E i \in 1..Len(body) : ~IsDigit(body[i])
        THEN [ok |-> FALSE, val |-> 0]
        ELSE [ok |-> TRUE,
              val |-> IF signed /\ s[1] = "-" THEN 0 - ParseUint(body)
                      ELSE ParseUint(body)]

\* the accumulators of the classification loop
Buckets(failed, toRemove, latest, invalid, old) ==
    [failed |-> failed, instanceIdsToRemove |-> toRemove,
     latestInstances |-> latest, invalidInstances |-> invalid,
     oldInstances |-> old]

EmptyBuckets == Buckets(FALSE, <<>>, <<>>, <<>>, <<>>)

\* formatting of a non-negative integer in decimal
RECURSIVE FormatInt(_)
FormatInt(n) ==
    IF n < 10 THEN <<Digits[n + 1]>>
    ELSE Append(FormatInt(n \div 10), Digits[(n % 10) + 1])

\* ClassifyInstance dropping an unprotected instance of another template
ClassifyInstance_DropMismatch(b, instance, name, latest) ==
    IF ~instance.hasLaunchTemplate \/ ~instance.hasVersion
    THEN [b EXCEPT !.failed = TRUE]
    ELSE IF instance.LaunchTemplateName # name
    THEN IF instance.ProtectedFromScaleIn = FALSE
         THEN b
         ELSE [b EXCEPT !.instanceIdsToRemove = Append(@, instance.InstanceId)]
    ELSE LET version == ParseInt(instance.Version)
         IN  IF ~version.ok
             THEN [b EXCEPT !.failed = TRUE]
             ELSE IF version.val # latest
             THEN IF instance.ProtectedFromScaleIn = FALSE
                  THEN [b EXCEPT
                          !.invalidInstances = Append(@, instance.InstanceId),
                          !.oldInstances = Append(@, instance.InstanceId)]
                  ELSE [b EXCEPT
                          !.invalidInstances = Append(@, instance.InstanceId),
                          !.instanceIdsToRemove = Append(@, instance.InstanceId)]
             ELSE [b EXCEPT !.latestInstances = Append(@, instance.InstanceId)]

\* ClassifyInstance comparing the version string with the formatted latest
\* version instead of the parsed number
ClassifyInstance_CompareStrings(b, instance, name, latest) ==
    IF ~instance.hasLaunchTemplate \/ ~instance.hasVersion
    THEN [b EXCEPT !.failed = TRUE]
    ELSE IF instance.LaunchTemplateName # name
    THEN IF instance.ProtectedFromScaleIn = FALSE
         THEN [b EXCEPT !.oldInstances = Append(@, instance.InstanceId)]
         ELSE [b EXCEPT !.instanceIdsToRemove = Append(@, instance.InstanceId)]
    ELSE LET version == ParseInt(instance.Version)
         IN  IF ~version.ok
             THEN [b EXCEPT !.failed = TRUE]
             ELSE IF instance.Version # FormatInt(latest)
             THEN IF instance.ProtectedFromScaleIn = FALSE
                  THEN [b EXCEPT
                          !.invalidInstances = Append(@, instance.InstanceId),
                          !.oldInstances = Append(@, instance.InstanceId)]
                  ELSE [b EXCEPT
                          !.invalidInstances = Append(@, instance.InstanceId),
                          !.instanceIdsToRemove = Append(@, instance.InstanceId)]
             ELSE [b EXCEPT !.latestInstances = Append(@, instance.InstanceId)]

\* ClassifyInstance skipping an instance whose version does not parse
ClassifyInstance_SkipUnparsed(b, instance, name, latest) ==
    IF ~instance.hasLaunchTemplate \/ ~instance.hasVersion
    THEN [b EXCEPT !.failed = TRUE]
    ELSE IF instance.LaunchTemplateName # name
    THEN IF instance.ProtectedFromScaleIn = FALSE
         THEN [b EXCEPT !.oldInstances = Append(@, instance.InstanceId)]
         ELSE [b EXCEPT !.instanceIdsToRemove = Append(@, instance.InstanceId)]
    ELSE LET version == ParseInt(instance.Version)
         IN  IF ~version.ok
             THEN b
             ELSE IF version.val # latest
             THEN IF instance.ProtectedFromScaleIn = FALSE
                  THEN [b EXCEPT
                          !.invalidInstances = Append(@, instance.InstanceId),
                          !.oldInstances = Append(@, instance.InstanceId)]
                  ELSE [b EXCEPT
                          !.invalidInstances = Append(@, instance.InstanceId),
                          !.instanceIdsToRemove = Append(@, instance.InstanceId)]
             ELSE [b EXCEPT !.latestInstances = Append(@, instance.InstanceId)]

\* one iteration of the loop over asg.Instances
ClassifyInstance(b, instance, name, latest) ==
    IF ~instance.hasLaunchTemplate \/ ~instance.hasVersion
    THEN [b EXCEPT !.failed = TRUE]
    ELSE IF instance.LaunchTemplateName # name
    THEN IF instance.ProtectedFromScaleIn = FALSE
         THEN [b EXCEPT !.oldInstances = Append(@, instance.InstanceId)]
         ELSE [b EXCEPT !.instanceIdsToRemove = Append(@, instance.InstanceId)]
    ELSE LET version == ParseInt(instance.Version)
         IN  IF ~version.ok
             THEN [b EXCEPT !.failed = TRUE]
             ELSE IF version.val # latest
             THEN IF instance.ProtectedFromScaleIn = FALSE
                  THEN [b EXCEPT
                          !.invalidInstances = Append(@, instance.InstanceId),
                          !.oldInstances = Append(@, instance.InstanceId)]
                  ELSE [b EXCEPT
                          !.invalidInstances = Append(@, instance.InstanceId),
                          !.instanceIdsToRemove = Append(@, instance.InstanceId)]
             ELSE [b EXCEPT !.latestInstances = Append(@, instance.InstanceId)]

\* the loop over asg.Instances; it returns at the first failure
RECURSIVE ClassifyFrom(_, _, _, _, _)
ClassifyFrom(b, insts, i, name, latest) ==
    IF i > Len(insts) \/ b.failed THEN b
    ELSE ClassifyFrom(ClassifyInstance(b, insts[i], name, latest),
                      insts, i + 1, name, latest)

ClassifyAll(insts, name, latest) ==
    ClassifyFrom(EmptyBuckets, insts, 1, name, latest)

\* MatchTargets taking every registered target
MatchTargets_AllRegistered(healthy, olds) == healthy

\* the targets of one target group that are stale unprotected instances:
\* the nested loops over healthy.TargetHealthDescriptions and oldInstances
RECURSIVE MatchTargets(_, _)
MatchTargets(healthy, olds) ==
    IF healthy = <<>> THEN <<>>
    ELSE LET h == Head(healthy)
             hits == SelectSeq(olds, LAMBDA old : h = old)
         IN  [k \in 1..Len(hits) |-> h] \o MatchTargets(Tail(healthy), olds)

\* ShouldDeregister without the check for an instance at the latest version
ShouldDeregister_NoLatestCheck(opts, latest, old) ==
    opts.Deregister /\ Len(old) > 0

\* the guard of the deregistration block
ShouldDeregister(opts, latest, old) ==
    opts.Deregister /\ Len(latest) > 0 /\ Len(old) > 0

\* gopart.Partition(collectionLen, partitionSize): the index ranges
\* [Low, High) of the full partitions, then of the remainder
Partition(collectionLen, partitionSize) ==
    LET full == collectionLen \div partitionSize
        rest == collectionLen % partitionSize
    IN  [i \in 1..(full + (IF rest # 0 THEN 1 ELSE 0)) |->
            [Low |-> (i - 1) * partitionSize,
             High |-> IF i <= full THEN i * partitionSize ELSE collectionLen]]

\* instanceIdsToRemove[partition.Low:partition.High]
Slice(s, r) == SubSeq(s, r.Low + 1, r.High)

\* the InstanceIds field of the SetInstanceProtectionInput of a partition
ProtectionPayload(ids, r) == ids

\* a remote call, as recorded in calls
Call(op, tg, ids, ok) == [op |-> op, tg |-> tg, ids |-> ids, ok |-> ok]
NoTargetGroup == <<>>
NoIds == <<>>

\* ----------------------------------------------- environment responses
\* a DescribeAutoScalingGroups response holding one group
AutoScalingGroups ==
    [LaunchTemplate : {"", AsgTemplate},
     MixedInstancesPolicy : {"", AsgTemplate},
     Instances : SmallInstanceLists,
     TargetGroupARNs : TargetGroupLists]
    \cup
    [LaunchTemplate : {AsgTemplate}, MixedInstancesPolicy : {""},
     Instances : LongInstanceLists, TargetGroupARNs : {<<>>}]
    \cup
    [LaunchTemplate : {AsgTemplate}, MixedInstancesPolicy : {""},
     Instances : {MixedList}, TargetGroupARNs : TargetGroupLists]

\* the launch template name of the group; "" stands for nil
LtNameOf(asg) ==
    IF asg.LaunchTemplate # "" THEN asg.LaunchTemplate
    ELSE IF asg.MixedInstancesPolicy # "" THEN asg.MixedInstancesPolicy
    ELSE ""

\* the target ids a DescribeTargetHealth response may list: none, one
\* instance of the group, or all of them and a target outside the group
ForeignTarget == InstanceId(0)
HealthResponses(insts) ==
    LET ids == [i \in 1..Len(insts) |-> insts[i].InstanceId]
    IN  {<<>>, Append(ids, ForeignTarget)}
        \cup { <<ids[i]>> : i \in {1, Len(ids)} \cap DOMAIN ids }

\* ------------------------------------------------------------- Init
Init ==
    /\ options \in Options
    /\ pc = "describeASG"
    /\ instances = <<>>
    /\ targetGroupARNs = <<>>
    /\ ltName = ""
    /\ latestVersion = 0
    /\ instanceIdsToRemove = <<>>
    /\ latestInstances = <<>>
    /\ invalidInstances = <<>>
    /\ oldInstances = <<>>
    /\ tgIdx = 1
    /\ targets = <<>>
    /\ partIdx = 1
    /\ calls = <<>>
    /\ stdout = <<>>
    /\ dryrun = <<>>

\* ---------------------------------------------------------- actions
\* DescribeAutoScalingGroups returns an error
DescribeASGFails ==
    /\ pc = "describeASG"
    /\ calls' = Append(calls, Call("DescribeAutoScalingGroups", NoTargetGroup, NoIds, FALSE))
    /\ pc' = "error"
    /\ UNCHANGED <<options, instances, targetGroupARNs, ltName, latestVersion,
                   instanceIdsToRemove, latestInstances, invalidInstances,
                   oldInstances, tgIdx, targets, partIdx, stdout, dryrun>>

\* DescribeAutoScalingGroups succeeds with a nil response or with a number
\* of groups other than one
DescribeASGNotFound ==
    /\ pc = "describeASG"
    /\ calls' = Append(calls, Call("DescribeAutoScalingGroups", NoTargetGroup, NoIds, TRUE))
    /\ pc' = "error"
    /\ UNCHANGED <<options, instances, targetGroupARNs, ltName, latestVersion,
                   instanceIdsToRemove, latestInstances, invalidInstances,
                   oldInstances, tgIdx, targets, partIdx, stdout, dryrun>>

\* DescribeAutoScalingGroups returns a group that names no launch template,
\* neither in LaunchTemplate nor in MixedInstancesPolicy
DescribeASGNoLaunchTemplate ==
    /\ pc = "describeASG"
    /\ \E asg \in AutoScalingGroups : LtNameOf(asg) = ""
    /\ calls' = Append(calls, Call("DescribeAutoScalingGroups", NoTargetGroup, NoIds, TRUE))
    /\ pc' = "error"
    /\ UNCHANGED <<options, instances, targetGroupARNs, ltName, latestVersion,
                   instanceIdsToRemove, latestInstances, invalidInstances,
                   oldInstances, tgIdx, targets, partIdx, stdout, dryrun>>

\* DescribeAutoScalingGroups returns the group; its launch template name is
\* taken from LaunchTemplate or else from MixedInstancesPolicy
DescribeASG ==
    /\ pc = "describeASG"
    /\ \E asg \in AutoScalingGroups :
        /\ LtNameOf(asg) # ""
        /\ instances' = asg.Instances
        /\ targetGroupARNs' = asg.TargetGroupARNs
        /\ ltName' = LtNameOf(asg)
    /\ calls' = Append(calls, Call("DescribeAutoScalingGroups", NoTargetGroup, NoIds, TRUE))
    /\ pc' = "describeLT"
    /\ UNCHANGED <<options, latestVersion,
                   instanceIdsToRemove, latestInstances, invalidInstances,
                   oldInstances, tgIdx, targets, partIdx, stdout, dryrun>>

\* DescribeLaunchTemplates returns an error
DescribeLTFails ==
    /\ pc = "describeLT"
    /\ calls' = Append(calls, Call("DescribeLaunchTemplates", NoTargetGroup, NoIds, FALSE))
    /\ pc' = "error"
    /\ UNCHANGED <<options, instances, targetGroupARNs, ltName, latestVersion,
                   instanceIdsToRemove, latestInstances, invalidInstances,
                   oldInstances, tgIdx, targets, partIdx, stdout, dryrun>>

\* DescribeLaunchTemplates succeeds with a nil response, with a number of
\* templates other than one, or with a template without LatestVersionNumber
DescribeLTInvalid ==
    /\ pc = "describeLT"
    /\ calls' = Append(calls, Call("DescribeLaunchTemplates", NoTargetGroup, NoIds, TRUE))
    /\ pc' = "error"
    /\ UNCHANGED <<options, instances, targetGroupARNs, ltName, latestVersion,
                   instanceIdsToRemove, latestInstances, invalidInstances,
                   oldInstances, tgIdx, targets, partIdx, stdout, dryrun>>

\* DescribeLaunchTemplates returns the template and its latest version
DescribeLT ==
    /\ pc = "describeLT"
    /\ calls' = Append(calls, Call("DescribeLaunchTemplates", NoTargetGroup, NoIds, TRUE))
    /\ latestVersion' = LatestVersionNumber
    /\ pc' = "classify"
    /\ UNCHANGED <<options, instances, targetGroupARNs, ltName,
                   instanceIdsToRemove, latestInstances, invalidInstances,
                   oldInstances, tgIdx, targets, partIdx, stdout, dryrun>>

\* the classification loop over asg.Instances: it fills the four lists, or
\* returns an error at the first instance without a launch template version
\* or with a version of the group's template that does not parse
Classify ==
    /\ pc = "classify"
    /\ LET b == ClassifyAll(instances, ltName, latestVersion)
       IN  IF b.failed
           THEN /\ pc' = "error"
                /\ UNCHANGED <<instanceIdsToRemove, latestInstances,
                               invalidInstances, oldInstances>>
           ELSE /\ pc' = "print"
                /\ instanceIdsToRemove' = b.instanceIdsToRemove
                /\ latestInstances' = b.latestInstances
                /\ invalidInstances' = b.invalidInstances
                /\ oldInstances' = b.oldInstances
    /\ UNCHANGED <<options, instances, targetGroupARNs, ltName, latestVersion,
                   tgIdx, targets, partIdx, calls, stdout, dryrun>>

\* what the two print options write to standard output
Printed(opts, latest, invalid) ==
    (IF opts.PrintLatestInstances THEN latest ELSE <<>>)
    \o (IF opts.PrintInvalidInstances THEN invalid ELSE <<>>)

\* the optional printing of the lists, then the guard of the
\* deregistration block and of its loop over asg.TargetGroupARNs
PrintInstances ==
    /\ pc = "print"
    /\ stdout' = stdout \o Printed(options, latestInstances, invalidInstances)
    /\ pc' = IF /\ ShouldDeregister(options, latestInstances, oldInstances)
                /\ Len(targetGroupARNs) > 0
             THEN "targetHealth" ELSE "plan"
    /\ UNCHANGED <<options, instances, targetGroupARNs, ltName, latestVersion,
                   instanceIdsToRemove, latestInstances, invalidInstances,
                   oldInstances, tgIdx, targets, partIdx, calls, dryrun>>

\* the position after the target group tgIdx has been processed
AfterTargetGroup == IF tgIdx < Len(targetGroupARNs) THEN "targetHealth" ELSE "plan"

\* DescribeTargetHealth of the current target group returns an error
DescribeTargetHealthFails ==
    /\ pc = "targetHealth"
    /\ calls' = Append(calls, Call("DescribeTargetHealth", targetGroupARNs[tgIdx], NoIds, FALSE))
    /\ pc' = "error"
    /\ UNCHANGED <<options, instances, targetGroupARNs, ltName, latestVersion,
                   instanceIdsToRemove, latestInstances, invalidInstances,
                   oldInstances, tgIdx, targets, partIdx, stdout, dryrun>>

\* DescribeTargetHealth returns the targets of the current target group;
\* those that are stale unprotected instances are collected, and a dry run
\* logs them and moves to the next target group
DescribeTargetHealth ==
    /\ pc = "targetHealth"
    /\ \E healthy \in HealthResponses(instances) :
        /\ calls' = Append(calls, Call("DescribeTargetHealth", targetGroupARNs[tgIdx], healthy, TRUE))
        /\ targets' = MatchTargets(healthy, oldInstances)
    /\ IF options.DryRun
       THEN /\ dryrun' = Append(dryrun, Call("DeregisterTargets", targetGroupARNs[tgIdx], targets', TRUE))
            /\ tgIdx' = tgIdx + 1
            /\ pc' = AfterTargetGroup
       ELSE /\ pc' = "deregister"
            /\ UNCHANGED <<dryrun, tgIdx>>
    /\ UNCHANGED <<options, instances, targetGroupARNs, ltName, latestVersion,
                   instanceIdsToRemove, latestInstances, invalidInstances,
                   oldInstances, partIdx, stdout>>

\* DeregisterTargetsFails going on to the next target group
DeregisterTargetsFails_Continue ==
    /\ pc = "deregister"
    /\ calls' = Append(calls, Call("DeregisterTargets", targetGroupARNs[tgIdx], targets, FALSE))
    /\ tgIdx' = tgIdx + 1
    /\ pc' = AfterTargetGroup
    /\ UNCHANGED <<options, instances, targetGroupARNs, ltName, latestVersion,
                   instanceIdsToRemove, latestInstances, invalidInstances,
                   oldInstances, targets, partIdx, stdout, dryrun>>

\* DeregisterTargets is called with the collected targets and fails
DeregisterTargetsFails ==
    /\ pc = "deregister"
    /\ calls' = Append(calls, Call("DeregisterTargets", targetGroupARNs[tgIdx], targets, FALSE))
    /\ pc' = "error"
    /\ UNCHANGED <<options, instances, targetGroupARNs, ltName, latestVersion,
                   instanceIdsToRemove, latestInstances, invalidInstances,
                   oldInstances, tgIdx, targets, partIdx, stdout, dryrun>>

\* DeregisterTargets is called with the collected targets and succeeds
DeregisterTargets ==
    /\ pc = "deregister"
    /\ calls' = Append(calls, Call("DeregisterTargets", targetGroupARNs[tgIdx], targets, TRUE))
    /\ tgIdx' = tgIdx + 1
    /\ pc' = AfterTargetGroup
    /\ UNCHANGED <<options, instances, targetGroupARNs, ltName, latestVersion,
                   instanceIdsToRemove, latestInstances, invalidInstances,
                   oldInstances, targets, partIdx, stdout, dryrun>>

\* ShouldProceed without the check for an instance at the latest version
ShouldProceed_NoLatestCheck(opts, toRemove, latest) == Len(toRemove) # 0

\* whether the run goes on to remove protection: there is something to
\* remove, and an instance at the latest version or the force option
ShouldProceed(opts, toRemove, latest) ==
    Len(toRemove) # 0 /\ (Len(latest) # 0 \/ opts.Force)

\* the checks before the partition loop: nothing to do, or no instance at
\* the latest version and no force option, end the run successfully
PlanProtection ==
    /\ pc = "plan"
    /\ pc' = IF ShouldProceed(options, instanceIdsToRemove, latestInstances)
             THEN "partition" ELSE "done"
    /\ UNCHANGED <<options, instances, targetGroupARNs, ltName, latestVersion,
                   instanceIdsToRemove, latestInstances, invalidInstances,
                   oldInstances, tgIdx, targets, partIdx, calls, stdout, dryrun>>

\* the partitions of instanceIdsToRemove
Partitions == Partition(Len(instanceIdsToRemove), BatchSize)

\* the position after the partition partIdx has been processed
AfterPartition == IF partIdx < Len(Partitions) THEN "partition" ELSE "done"

\* a dry run logs the instances of the current partition
DryRunPartition ==
    /\ pc = "partition"
    /\ options.DryRun
    /\ dryrun' = Append(dryrun, Call("SetInstanceProtection", NoTargetGroup,
                                    Slice(instanceIdsToRemove, Partitions[partIdx]), TRUE))
    /\ partIdx' = partIdx + 1
    /\ pc' = AfterPartition
    /\ UNCHANGED <<options, instances, targetGroupARNs, ltName, latestVersion,
                   instanceIdsToRemove, latestInstances, invalidInstances,
                   oldInstances, tgIdx, targets, calls, stdout>>

\* SetInstanceProtection is called for the current partition and fails
SetInstanceProtectionFails ==
    /\ pc = "partition"
    /\ ~options.DryRun
    /\ calls' = Append(calls, Call("SetInstanceProtection", NoTargetGroup,
                                  ProtectionPayload(instanceIdsToRemove, Partitions[partIdx]), FALSE))
    /\ pc' = "error"
    /\ UNCHANGED <<options, instances, targetGroupARNs, ltName, latestVersion,
                   instanceIdsToRemove, latestInstances, invalidInstances,
                   oldInstances, tgIdx, targets, partIdx, stdout, dryrun>>

\* SetInstanceProtection reached by a dry run as well
SetInstanceProtection_InDryRun ==
    /\ pc = "partition"
    /\ calls' = Append(calls, Call("SetInstanceProtection", NoTargetGroup,
                                  ProtectionPayload(instanceIdsToRemove, Partitions[partIdx]), TRUE))
    /\ partIdx' = partIdx + 1
    /\ pc' = AfterPartition
    /\ UNCHANGED <<options, instances, targetGroupARNs, ltName, latestVersion,
                   instanceIdsToRemove, latestInstances, invalidInstances,
                   oldInstances, tgIdx, targets, stdout, dryrun>>

\* SetInstanceProtection is called for the current partition and succeeds
SetInstanceProtection ==
    /\ pc = "partition"
    /\ ~options.DryRun
    /\ calls' = Append(calls, Call("SetInstanceProtection", NoTargetGroup,
                                  ProtectionPayload(instanceIdsToRemove, Partitions[partIdx]), TRUE))
    /\ partIdx' = partIdx + 1
    /\ pc' = AfterPartition
    /\ UNCHANGED <<options, instances, targetGroupARNs, ltName, latestVersion,
                   instanceIdsToRemove, latestInstances, invalidInstances,
                   oldInstances, tgIdx, targets, stdout, dryrun>>

Next ==
    \/ DescribeASGFails
    \/ DescribeASGNotFound
    \/ DescribeASGNoLaunchTemplate
    \/ DescribeASG
    \/ DescribeLTFails
    \/ DescribeLTInvalid
    \/ DescribeLT
    \/ Classify
    \/ PrintInstances
    \/ DescribeTargetHealthFails
    \/ DescribeTargetHealth
    \/ DeregisterTargetsFails
    \/ DeregisterTargets
    \/ PlanProtection
    \/ DryRunPartition
    \/ SetInstanceProtectionFails
    \/ SetInstanceProtection

Spec == Init /\ [][Next]_vars

\* ------------------------------------------------------- properties
ToSet(s) == { s[i] : i \in DOMAIN s }
InstanceIds == { instances[i].InstanceId : i \in DOMAIN instances }

TargetGroupOps == {"DescribeTargetHealth", "DeregisterTargets"}
MutatingOps == {"DeregisterTargets", "SetInstanceProtection"}

CallsOf(ops) == SelectSeq(calls, LAMBDA c : c.op \in ops)
FailedCalls(ops) == SelectSeq(calls, LAMBDA c : c.op \in ops /\ ~c.ok)
NoMutatingCall == CallsOf(MutatingOps) = <<>>
ProtectionCalls == CallsOf({"SetInstanceProtection"})
DeregistrationCalls == CallsOf({"DeregisterTargets"})
HealthLookups == CallsOf({"DescribeTargetHealth"})

\* the run is over
Ended == pc \in {"done", "error"}

\* the classification loop has completed without error
ClassificationDone ==
    \/ pc \in {"print", "targetHealth", "deregister", "plan", "partition", "done"}
    \/ pc = "error" /\ FailedCalls(TargetGroupOps \cup {"SetInstanceProtection"}) # <<>>

RECURSIVE Concat(_)
Concat(ss) == IF ss = <<>> THEN <<>> ELSE Head(ss) \o Concat(Tail(ss))

IdLists(cs) == [i \in DOMAIN cs |-> cs[i].ids]

CeilDiv(n, d) == (n + d - 1) \div d

\* C1: when classification completes, latestInstances, instanceIdsToRemove
\* and oldInstances are pairwise disjoint and together hold exactly the
\* instance ids of the group, each once.
C1_BucketsPartition ==
    ClassificationDone =>
        /\ ToSet(latestInstances) \cap ToSet(instanceIdsToRemove) = {}
        /\ ToSet(latestInstances) \cap ToSet(oldInstances) = {}
        /\ ToSet(instanceIdsToRemove) \cap ToSet(oldInstances) = {}
        /\ ToSet(latestInstances) \cup ToSet(instanceIdsToRemove)
             \cup ToSet(oldInstances) = InstanceIds
        /\ Len(latestInstances) + Len(instanceIdsToRemove) + Len(oldInstances)
             = Len(instances)

\* C1 witness: a classified group with all three buckets non-empty, one of
\* them holding an instance of another launch template
C1_Witness ==
    /\ pc = "done"
    /\ latestInstances # <<>>
    /\ instanceIdsToRemove # <<>>
    /\ Len(oldInstances) = 2
    /\ Len(invalidInstances) = 2

\* C2: a run that executes a list of N instance ids issues ceil(N/50)
\* protection-removal calls (groups of dry-run records in a dry run), each
\* carrying at most 50 ids, whose id lists concatenated in order are the
\* list itself.
C2_BatchesCoverOnce ==
    (pc = "done" /\ ShouldProceed(options, instanceIdsToRemove, latestInstances)) =>
        LET groups == IF options.DryRun
                      THEN SelectSeq(dryrun, LAMBDA c : c.op = "SetInstanceProtection")
                      ELSE ProtectionCalls
        IN  /\ Len(groups) = CeilDiv(Len(instanceIdsToRemove), BatchSize)
            /\ \A i \in DOMAIN groups : Len(groups[i].ids) <= BatchSize
            /\ Concat(IdLists(groups)) = instanceIdsToRemove

\* the condition under which protection is to be removed
RemovalDue ==
    instanceIdsToRemove # <<>> /\ (latestInstances # <<>> \/ options.Force)

\* the blocked case and the forced case of the removal
BlockedAndForcedCases ==
    /\ (instanceIdsToRemove # <<>> /\ latestInstances = <<>> /\ ~options.Force)
          => (pc = "done" /\ NoMutatingCall)
    /\ (instanceIdsToRemove # <<>> /\ latestInstances = <<>> /\ options.Force
          /\ pc = "done")
          => ToSet(instanceIdsToRemove)
               \subseteq UNION { ToSet(ProtectionCalls[i].ids) : i \in DOMAIN ProtectionCalls }

C4_DryRunNoMutation == options.DryRun => NoMutatingCall

\* C4 witness: a finished dry run that logged targets to deregister and
\* instances to unprotect
C4_Witness ==
    /\ pc = "done" /\ options.DryRun
    /\ \E i \in DOMAIN dryrun :
         dryrun[i].op = "DeregisterTargets" /\ dryrun[i].ids # <<>>
    /\ \E i \in DOMAIN dryrun :
         dryrun[i].op = "SetInstanceProtection" /\ dryrun[i].ids # <<>>

\* the health lookup that precedes the i-th call
LookupBefore(i) == calls[i - 1]

\* C5: every target of a deregistration request was returned by the health
\* lookup of the same target group and is a stale unprotected instance; no
\* instance at the latest version and none still to be unprotected is in it.
C5_DeregisteredAreRegisteredStale ==
    \A i \in DOMAIN calls :
        calls[i].op = "DeregisterTargets" =>
            /\ i > 1
            /\ LookupBefore(i).op = "DescribeTargetHealth"
            /\ LookupBefore(i).tg = calls[i].tg
            /\ ToSet(calls[i].ids)
                 \subseteq ToSet(LookupBefore(i).ids) \cap ToSet(oldInstances)
            /\ ToSet(calls[i].ids) \cap ToSet(latestInstances) = {}
            /\ ToSet(calls[i].ids) \cap ToSet(instanceIdsToRemove) = {}

\* C5 witness: a deregistration request that leaves out registered targets
\* (an instance at the latest version, a protected one, a foreign target)
C5_Witness ==
    \E i \in DOMAIN calls :
        /\ calls[i].op = "DeregisterTargets"
        /\ calls[i].ids # <<>>
        /\ i > 1
        /\ ToSet(LookupBefore(i).ids) \cap ToSet(latestInstances) # {}
        /\ ToSet(LookupBefore(i).ids) \cap ToSet(instanceIdsToRemove) # {}
        /\ ForeignTarget \in ToSet(LookupBefore(i).ids)

\* every instance of the group is of the group's launch template
AllOfAsgTemplate ==
    \A i \in DOMAIN instances : instances[i].LaunchTemplateName = ltName

\* every instance of the group carries the latest version number
AllAtLatestVersion ==
    \A i \in DOMAIN instances :
        /\ instances[i].hasLaunchTemplate /\ instances[i].hasVersion
        /\ ParseInt(instances[i].Version).ok
        /\ ParseInt(instances[i].Version).val = latestVersion

\* nothing to unprotect, nothing stale, and the run ends successfully
\* without a target group call or a protection-removal call
NoOpPlan ==
    /\ instanceIdsToRemove = <<>>
    /\ oldInstances = <<>>
    /\ pc \in {"print", "plan", "done"}
    /\ CallsOf(TargetGroupOps \cup MutatingOps) = <<>>

\* C6 as claimed: if the version of every instance equals the latest
\* version, nothing is to be unprotected, nothing is stale and the run is a
\* successful no-op.
C6_AllLatestIsNoOp == (ClassificationDone /\ AllAtLatestVersion) => NoOpPlan

\* C6 amended: if every instance is of the group's launch template and its
\* version equals the latest version, nothing is to be unprotected, nothing
\* is stale and the run is a successful no-op.
C6_AllLatestOfAsgTemplateIsNoOp ==
    (ClassificationDone /\ AllAtLatestVersion /\ AllOfAsgTemplate) => NoOpPlan

\* C6 witness: a finished live run with deregistration enabled over two
\* instances at the latest version, one of them written "+5"
C6_Witness ==
    /\ pc = "done" /\ ~options.DryRun /\ options.Deregister
    /\ Len(instances) = 2 /\ Len(targetGroupARNs) > 0
    /\ AllAtLatestVersion /\ AllOfAsgTemplate
    /\ instances[2].Version = VPlus5

\* decimal strings, stated apart from the parsing of the model
DecimalChars == {"0", "1", "2", "3", "4", "5", "6", "7", "8", "9"}
IsDecimalDigits(s) == s # <<>> /\ \A i \in DOMAIN s : s[i] \in DecimalChars
IsNonNegativeInteger(s) ==
    \/ IsDecimalDigits(s)
    \/ Len(s) > 1 /\ s[1] = "+" /\ IsDecimalDigits(Tail(s))
IsSignedInteger(s) ==
    \/ IsDecimalDigits(s)
    \/ Len(s) > 1 /\ s[1] \in {"+", "-"} /\ IsDecimalDigits(Tail(s))

\* the classification loop has been run, to completion or to its error
ClassificationRan == Len(calls) >= 2 /\ calls[2].ok /\ pc # "classify"

\* the run returned the classification error: nothing called, nothing printed
ClassificationFailed ==
    /\ pc = "error"
    /\ Len(calls) = 2
    /\ stdout = <<>>
    /\ dryrun = <<>>

IsPrefix(s, t) == Len(s) <= Len(t) /\ s = SubSeq(t, 1, Len(s))

\* C8: a target-health lookup or a deregistration call is issued only if
\* the deregister option is set and there are an instance at the latest
\* version and a stale unprotected one; then the target groups are looked
\* up in the order of the group, all of them unless a call fails.
C8_DeregistrationGuardAndOrder ==
    /\ CallsOf(TargetGroupOps) # <<>> =>
          /\ options.Deregister
          /\ latestInstances # <<>>
          /\ oldInstances # <<>>
    /\ IsPrefix([i \in DOMAIN HealthLookups |-> HealthLookups[i].tg], targetGroupARNs)
    /\ (/\ pc \in {"plan", "partition", "done"}
        /\ options.Deregister /\ latestInstances # <<>> /\ oldInstances # <<>>)
          => Len(HealthLookups) = Len(targetGroupARNs)
    /\ (/\ pc = "error" /\ ClassificationDone
        /\ options.Deregister /\ latestInstances # <<>> /\ oldInstances # <<>>)
          => \/ Len(HealthLookups) = Len(targetGroupARNs)
             \/ FailedCalls(TargetGroupOps) # <<>>

\* C8 witness: a finished run that looked up two target groups
C8_Witness ==
    /\ pc = "done"
    /\ Len(targetGroupARNs) = 2
    /\ Len(HealthLookups) = 2
    /\ HealthLookups[1].tg # HealthLookups[2].tg

\* C9: a failed remote call is the last call of the run and the run ends in
\* error: nothing is called after it, it is not retried, and after a failed
\* target group call no protection-removal call is issued.
C9_FailureEndsRun ==
    /\ \A i \in DOMAIN calls :
          ~calls[i].ok => (i = Len(calls) /\ pc = "error")
    /\ FailedCalls(TargetGroupOps) # <<>> => ProtectionCalls = <<>>

\* C9 witness: the deregistration of the second target group failed after
\* the first target group had been deregistered from; the group has
\* instances to unprotect and none was unprotected
C9_Witness ==
    /\ pc = "error"
    /\ instanceIdsToRemove # <<>>
    /\ Len(DeregistrationCalls) = 2
    /\ DeregistrationCalls[1].ok /\ DeregistrationCalls[1].ids # <<>>
    /\ ~DeregistrationCalls[2].ok

\* C10: in a live run every looked-up target group gets at most one
\* deregistration call, holding all of its registered targets that are
\* stale unprotected instances, and gets one only if it has such a target.
C10_DeregistrationOnlyOfMatches ==
    ~options.DryRun =>
        \A i \in DOMAIN calls :
            (calls[i].op = "DescribeTargetHealth" /\ calls[i].ok) =>
                LET matched == ToSet(calls[i].ids) \cap ToSet(oldInstances)
                    mine == SelectSeq(DeregistrationCalls,
                                      LAMBDA c : c.tg = calls[i].tg)
                IN  /\ Len(mine) <= 1
                    /\ mine # <<>> => ToSet(mine[1].ids) = matched
                    /\ mine # <<>> => matched # {}

====
